---- MODULE Spec2Model ----
(***************************************************************************)
(* Model of the cooperative particle filter node of pfuclt_omni_dataset:   *)
(* the callbacks of SelfRobot and TeammateRobot (pfuclt_omni_dataset.cpp)  *)
(* acting on the two particle matrices, particleSet_ (the self robot's     *)
(* own set) and pfParticles_ (the set shared through RobotFactory), and    *)
(* the inline operations of the ParticleFilter class (particles.h), which  *)
(* the node never constructs: they act on a ParticleFilter object of their *)
(* own.                                                                    *)
(*                                                                         *)
(* Units.  x and y are integers in half metres, angles are integers in     *)
(* quarter turns (so that sin and cos are exact), weights are fixed-point  *)
(* integers with W_ONE standing for 1.0.  The random source is a seeded    *)
(* deterministic generator, as boost's mt19937 is.                         *)
(***************************************************************************)
EXTENDS Integers, Sequences, FiniteSets, TLC

(***************************************************************************)
(* Bounds of the model                                                     *)
(***************************************************************************)
\* number of particles (/N_PARTICLES on the parameter server)
N_PARTICLES == 3
\* rows that PFresample copies first: the literal 100 of the source, kept
\* in proportion to the modelled particle count (N_PARTICLES >= KeptTop,
\* as the source indexes rows 0..99 unconditionally)
KeptTop == 2
\* fixed-point value of the weight 1.0
W_ONE == 8
\* callbacks delivered in one run
MaxCalls == 3
\* capacity the target velocity estimator is constructed with: State's
\* constructor passes MAX_ESTIMATOR_STACK_SIZE (15), held here in proportion
\* to the number of inserts of a run
maxDataSize == 3

(***************************************************************************)
(* Program constants                                                       *)
(***************************************************************************)
MAX_ROBOTS == 5
N_COLS == 19
N_STATE_COLS == 18
N_LANDMARKS == 10
PI == 2
MIN_WEIGHTSUM == 1
RESAMPLE_START_NUM == 1
RESAMPLE_START_DEN == 2
RNG_MOD == 251
EXP_CUT == 16

Particles == 0 .. (N_PARTICLES - 1)
Cols == 0 .. (N_COLS - 1)
StateCols == 0 .. (N_STATE_COLS - 1)
Landmarks == 0 .. (N_LANDMARKS - 1)
Robots == 1 .. MAX_ROBOTS
\* index of the weight column as the landmark callback computes it
O_WEIGHT == (MAX_ROBOTS + 1) * 3

\* /POS_INIT: two doubles per robot (half metres)
POS_INIT == <<2, 0, 4, 2, 6, -2, 8, 4, 10, -4>>
\* the landmark map read by initializeFixedLandmarks (half metres)
landmarks ==
  [i \in Landmarks |->
     [x |-> <<0, 0, 12, 12, 6, 6, 0, 12, 3, 9>>[i + 1],
      y |-> <<-9, 9, -9, 9, -9, 9, 0, 0, 0, 0>>[i + 1]]]

\* the configurations the node is started with: <<MY_ID, PLAYING_ROBOTS>>
Configs == { <<1, {1, 3}>>, <<4, {1, 4}>> }
\* values of time(0) at construction
Seeds == {1, 2}
\* odometry increments <<x, y, yaw>> carried by the messages
OdomSet == { <<0, 0, 0>>, <<1, 0, 1>>, <<1, 1, -1>> }
\* header.seq of a message: the first message or a later one
SeqSet == {0, 1}

\* robot numbers as the ParticleFilter takes them: [0, N)
RobotNumbers == 0 .. (MAX_ROBOTS - 1)
\* the value of a member that its constructor leaves uninitialized
INDETERMINATE == -99

\* the target has three states: x, y, z
STATES_PER_TARGET == 3
\* times are counted in ticks of 1/30 s: TARGET_ITERATION_TIME_MAX is 1 s
\* and TARGET_ITERATION_TIME_DEFAULT is 0.0333 s
TARGET_ITERATION_TIME_MAX == 30
TARGET_ITERATION_TIME_DEFAULT == 1

(***************************************************************************)
(* Math kernels                                                            *)
(***************************************************************************)
Cos(q) == CASE q % 4 = 0 -> 1 [] q % 4 = 1 -> 0 [] q % 4 = 2 -> -1 [] OTHER -> 0

Sin(q) == CASE q % 4 = 0 -> 0 [] q % 4 = 1 -> 1 [] q % 4 = 2 -> 0 [] OTHER -> -1

\* acos on the values a cosine takes: the result lies in [0, PI]
Acos(c) == CASE c = 1 -> 0 [] c = 0 -> 1 [] OTHER -> 2

\* exp(ExpArg) for ExpArg = -q (in units of ln 2), as a fixed-point weight
Exp2(q) == IF q > EXP_CUT THEN 0 ELSE W_ONE \div (2 ^ q)

\* the random generator: its state advances by one per draw and the value
\* drawn is the tempered state
\* the generator's state after n draws
RngAt(s, n) == (s + n) % RNG_MOD

\* the value of the n-th draw from state s (n >= 1)
Draw(s, n) == LET t == RngAt(s, n) IN (t * t + 37 * t + 11) % RNG_MOD

\* boost::random::uniform_real_distribution<>(lo, hi) applied to a draw
Uniform(lo, hi, r) == lo + (r % (hi - lo + 1))

\* conversion of a float to int (truncation), in fixed-point units
TruncInt(v) == (v \div W_ONE) * W_ONE

\* the function f on 0 .. n-1 tabulated entry by entry, as a loop fills a vector
Tab(f, n) ==
  LET t[k \in 0 .. n] == IF k = 0 THEN <<>> ELSE Append(t[k - 1], f[k - 1])
      T == t[n]
  IN  [p \in 0 .. (n - 1) |-> T[p + 1]]

\* pfuclt_aux::order_index: indices ordered by descending value, stable
order_index(w) ==
  LET rank(i) == Cardinality({j \in Particles :
                     w[j] > w[i] \/ (w[j] = w[i] /\ j < i)})
  IN  Tab([k \in Particles |-> CHOOSE i \in Particles : rank(i) = k],
          N_PARTICLES)

ZeroMatrix == [k \in Cols |-> [p \in Particles |-> 0]]

ZeroMsg == [particles |-> [p \in Particles |-> [k \in Cols |-> 0]],
            weightSum |-> 0]

(***************************************************************************)
(* State                                                                   *)
(***************************************************************************)
VARIABLES
  MY_ID,                \* /MY_ID
  PLAYING_ROBOTS,       \* /PLAYING_ROBOTS, as the set of robots playing
  started_,             \* Robot::started_ of every robot object
  particlesInitialized, \* SelfRobot::particlesInitialized
  particleSet_,         \* SelfRobot::particleSet_[19]
  pfParticles_,         \* RobotFactory::pfParticles, shared by the robots
  msg_particles,        \* SelfRobot::msg_particles
  normalizedWeights,    \* SelfRobot::normalizedWeights
  seed_,                \* SelfRobot::seed_
  published,            \* number of publishState calls
  lastCall,             \* the callback that ran last
  nCalls,               \* callbacks delivered so far
  iterations,           \* fuse/resample/publish passes run so far
  steps,                \* the steps the last callback ran, in order
  prePredict,           \* both matrices just before the last prediction loop
  preResample,          \* particleSet_ on entry to the last PFresample
  postInit,             \* particleSet_ on return from initPFset
  particles_,               \* ParticleFilter::particles_
  bufLandmarkObservations_, \* ParticleFilter::bufLandmarkObservations_
  bufTargetObservations_,   \* ParticleFilter::bufTargetObservations_
  lastSave,                 \* the last save call made for every buffer slot
  timeVec,                  \* targetVelocityEstimator_s::timeVec
  posVec,                   \* targetVelocityEstimator_s::posVec
  timeInit,                 \* targetVelocityEstimator_s::timeInit
  vel,                      \* State::target.vel
  inserted,                 \* every sample pushed by insert, in order
  targetIterationTime_,     \* ParticleFilter::targetIterationTime_
  data,                     \* the PFinitData object constructed last
  layout,                   \* the column indices the node computes at start
  mutex_                    \* ParticleFilter::mutex_ (TRUE when locked)

\* the target velocity estimator (and what is remembered of its inserts)
estimator == <<timeVec, posVec, timeInit, vel, inserted>>

\* the members and objects that the set-up operations write
setup == <<targetIterationTime_, data, layout, mutex_>>

\* the members of the ParticleFilter object (and what is remembered of the
\* calls made on it)
engine == <<particles_, bufLandmarkObservations_, bufTargetObservations_,
            lastSave, estimator, setup>>

vars == <<MY_ID, PLAYING_ROBOTS, started_, particlesInitialized, particleSet_,
          pfParticles_, msg_particles, normalizedWeights, seed_, published,
          lastCall, nCalls, iterations, steps, prePredict, preResample,
          postInit, engine>>

config == <<MY_ID, PLAYING_ROBOTS>>

\* landmarkObs_s::landmarkObs_s(): found is cleared, nothing else is set
landmarkObs_s ==
  [found |-> FALSE, x |-> INDETERMINATE, y |-> INDETERMINATE,
   d |-> INDETERMINATE, phi |-> INDETERMINATE, covDD |-> INDETERMINATE,
   covPP |-> INDETERMINATE, covXX |-> INDETERMINATE, covYY |-> INDETERMINATE]

\* targetObs_s::targetObs_s(): found is cleared, nothing else is set
targetObs_s ==
  [found |-> FALSE, x |-> INDETERMINATE, y |-> INDETERMINATE,
   z |-> INDETERMINATE, d |-> INDETERMINATE, phi |-> INDETERMINATE,
   covDD |-> INDETERMINATE, covPP |-> INDETERMINATE, covXX |-> INDETERMINATE,
   covYY |-> INDETERMINATE]

\* no PFinitData object has been constructed
NoData == [constructed |-> FALSE, nRobots |-> 0, alpha |-> <<>>]

\* main has not run
NoLayout == [read |-> FALSE, MAX_ROBOTS |-> 0, NUM_TARGETS |-> 0,
             N_DIMENSIONS |-> 0, columns |-> 0, weightInit |-> 0,
             weightFuse |-> 0, weightResample |-> 0, N_PARTICLES |-> 0,
             rowsResample |-> 0]

\* what is remembered of the save calls of a slot before any was made
NoSave(obs) == [kind |-> "none", obs |-> obs, found |-> FALSE]

(***************************************************************************)
(* Construction: main, RobotFactory::RobotFactory, SelfRobot::SelfRobot,   *)
(* TeammateRobot::TeammateRobot                                            *)
(***************************************************************************)
Init ==
  /\ \E c \in Configs : MY_ID = c[1] /\ PLAYING_ROBOTS = c[2]
  /\ seed_ \in Seeds
  /\ started_ = [r \in Robots |-> FALSE]
  /\ particlesInitialized = FALSE
  /\ particleSet_ = ZeroMatrix
  /\ pfParticles_ = ZeroMatrix
  /\ msg_particles = ZeroMsg
  /\ normalizedWeights = [p \in Particles |-> 0]
  /\ published = 0
  /\ lastCall = [cb |-> "none", robot |-> 0, init |-> FALSE]
  /\ nCalls = 0
  /\ iterations = 0
  /\ steps = <<>>
  /\ prePredict = [self |-> ZeroMatrix, shared |-> ZeroMatrix]
  /\ preResample = ZeroMatrix
  /\ postInit = ZeroMatrix
  /\ particles_ = ZeroMatrix
  /\ bufLandmarkObservations_ =
       [r \in RobotNumbers |-> [l \in Landmarks |-> landmarkObs_s]]
  /\ bufTargetObservations_ = [r \in RobotNumbers |-> targetObs_s]
  /\ lastSave = [landmark |-> [r \in RobotNumbers |-> [l \in Landmarks |->
                                 NoSave(landmarkObs_s)]],
                 target   |-> [r \in RobotNumbers |-> NoSave(targetObs_s)]]
  /\ timeVec = <<>>
  /\ posVec = [velType \in 0 .. (STATES_PER_TARGET - 1) |-> <<>>]
  /\ timeInit = INDETERMINATE
  /\ vel = [velType \in 0 .. (STATES_PER_TARGET - 1) |-> 0]
  /\ inserted = <<>>
  /\ targetIterationTime_ = [time |-> 0, diff |-> 0]
  /\ data = NoData
  /\ layout = NoLayout
  /\ mutex_ = FALSE

(***************************************************************************)
(* SelfRobot::initPFset                                                    *)
(***************************************************************************)
particleSetRandomInitValues ==
  [i \in StateCols |->
     CASE i \in {9}  -> <<POS_INIT[7] - 1, POS_INIT[7] + 1>>
       [] i \in {10} -> <<POS_INIT[8] - 1, POS_INIT[8] + 1>>
       [] i \in {11} -> <<PI, PI>>
       [] i % 3 = 0  -> <<0, 12>>
       [] i % 3 = 1  -> <<-9, 9>>
       [] OTHER      -> <<-PI, PI>>]

\* the weight every particle is given: 1 / N_PARTICLES on two ints
InitWeight == (1 \div N_PARTICLES) * W_ONE

\* the particle set initPFset leaves, drawing from generator state s
initPFset(s) ==
  [k \in Cols |->
     [p \in Particles |->
        IF k \in StateCols
        THEN Uniform(particleSetRandomInitValues[k][1],
                     particleSetRandomInitValues[k][2],
                     Draw(s, k * N_PARTICLES + p + 1))
        ELSE InitWeight]]

\* the message after initPFset: filled from the shared matrix
initMsg(msg, pf) ==
  [msg EXCEPT !.particles = [p \in Particles |-> [k \in Cols |-> pf[k][p]]]]

(***************************************************************************)
(* The prediction loop of the odometry callbacks                           *)
(***************************************************************************)
\* the prediction loop with the y column of the following block written
Predict_WrongColumn(m, rn, odom) ==
  LET th(i) == m[2 + rn * 3][i]
  IN  [m EXCEPT
         ![0 + rn * 3] = [i \in Particles |->
                            m[0 + rn * 3][i] + odom[1] * Cos(th(i))
                                             - odom[2] * Sin(th(i))],
         ![(4 + rn * 3) % N_STATE_COLS] =
                         [i \in Particles |->
                            m[1 + rn * 3][i] + odom[1] * Sin(th(i))
                                             + odom[2] * Cos(th(i))],
         ![2 + rn * 3] = [i \in Particles |-> Acos(Cos(th(i) + odom[3]))]]

\* rn is the robot's index (RobotNumber - 1), odom = <<x, y, yaw>>
Predict(m, rn, odom) ==
  LET th(i) == m[2 + rn * 3][i]
  IN  [m EXCEPT
         ![0 + rn * 3] = [i \in Particles |->
                            m[0 + rn * 3][i] + odom[1] * Cos(th(i))
                                             - odom[2] * Sin(th(i))],
         ![1 + rn * 3] = [i \in Particles |->
                            m[1 + rn * 3][i] + odom[1] * Sin(th(i))
                                             + odom[2] * Cos(th(i))],
         ![2 + rn * 3] = [i \in Particles |-> Acos(Cos(th(i) + odom[3]))]]

\* the gate opening as soon as one robot has started
areAllRobotsActive_Any(st) == \E r \in PLAYING_ROBOTS : st[r]

\* RobotFactory::areAllRobotsActive over the robot objects that exist
areAllRobotsActive(st) == \A r \in PLAYING_ROBOTS : st[r]

\* one more call is delivered
Counted(cb, r, didInit) ==
  /\ nCalls < MaxCalls
  /\ nCalls' = nCalls + 1
  /\ lastCall' = [cb |-> cb, robot |-> r, init |-> didInit]

\* a callback of the node: the node holds no ParticleFilter object
Called(cb, r, didInit) ==
  /\ Counted(cb, r, didInit)
  /\ UNCHANGED engine

SelfOdometryCallback(seq, odom) ==
  LET st      == [started_ EXCEPT ![MY_ID] = TRUE]
      doInit  == areAllRobotsActive(st) /\ ~particlesInitialized
      setInit == IF doInit THEN initPFset(seed_) ELSE particleSet_
      setOut  == IF seq # 0 THEN Predict(setInit, MY_ID - 1, odom) ELSE setInit
  IN  /\ Called("selfOdometry", MY_ID, doInit)
      /\ started_' = st
      /\ particlesInitialized' = (particlesInitialized \/ doInit)
      /\ seed_' = IF doInit THEN RngAt(seed_, N_STATE_COLS * N_PARTICLES)
                  ELSE seed_
      /\ msg_particles' = IF doInit THEN initMsg(msg_particles, pfParticles_)
                          ELSE msg_particles
      /\ postInit' = IF doInit THEN setInit ELSE postInit
      /\ prePredict' = [self |-> setInit, shared |-> pfParticles_]
      /\ particleSet_' = setOut
      /\ steps' = <<>>
      /\ UNCHANGED <<config, pfParticles_, normalizedWeights, published,
                     iterations, preResample>>

TeammateOdometryCallback(r, seq, odom) ==
  /\ r \in PLAYING_ROBOTS \ {MY_ID}
  /\ Called("teammateOdometry", r, FALSE)
  /\ started_' = [started_ EXCEPT ![r] = TRUE]
  /\ prePredict' = [self |-> particleSet_, shared |-> pfParticles_]
  /\ pfParticles_' = IF seq # 0 THEN Predict(pfParticles_, r - 1, odom)
                     ELSE pfParticles_
  /\ steps' = <<>>
  /\ UNCHANGED <<config, particlesInitialized, particleSet_, msg_particles,
                 normalizedWeights, seed_, published, iterations, preResample,
                 postInit>>

(***************************************************************************)
(* Target callbacks: the covariances they compute are locals               *)
(***************************************************************************)
\* the target callback of the main robot publishing the state
SelfTargetDataCallback_Publishes(found) ==
  /\ Called("selfTarget", MY_ID, FALSE)
  /\ steps' = <<>>
  /\ published' = published + 1
  /\ UNCHANGED <<config, started_, particlesInitialized, particleSet_,
                 pfParticles_, msg_particles, normalizedWeights, seed_,
                 iterations, prePredict, preResample, postInit>>

SelfTargetDataCallback(found) ==
  /\ Called("selfTarget", MY_ID, FALSE)
  /\ steps' = <<>>
  /\ UNCHANGED <<config, started_, particlesInitialized, particleSet_,
                 pfParticles_, msg_particles, normalizedWeights, seed_,
                 published, iterations, prePredict, preResample, postInit>>

TeammateTargetDataCallback(r, found) ==
  /\ r \in PLAYING_ROBOTS \ {MY_ID}
  /\ Called("teammateTarget", r, FALSE)
  /\ steps' = <<>>
  /\ UNCHANGED <<config, started_, particlesInitialized, particleSet_,
                 pfParticles_, msg_particles, normalizedWeights, seed_,
                 published, iterations, prePredict, preResample, postInit>>


TeammateLandmarkDataCallback(r, msg) ==
  /\ r \in PLAYING_ROBOTS \ {MY_ID}
  /\ Called("teammateLandmark", r, FALSE)
  /\ steps' = <<>>
  /\ UNCHANGED <<config, started_, particlesInitialized, particleSet_,
                 pfParticles_, msg_particles, normalizedWeights, seed_,
                 published, iterations, prePredict, preResample, postInit>>

(***************************************************************************)
(* SelfRobot::PFresample                                                   *)
(***************************************************************************)
\* std::accumulate(begin, end, 0): the accumulator is an int, so every
\* partial sum is truncated
accumulate(w) ==
  LET acc[k \in 0 .. N_PARTICLES] ==
        IF k = 0 THEN 0 ELSE TruncInt(acc[k - 1] + w[k - 1])
  IN  acc[N_PARTICLES]

\* results of a float division by zero
F_INF == -1
F_NAN == -2

\* std::divides<float>()(a, b) = a / b in fixed point
divides(a, b) ==
  IF b = 0 THEN (IF a = 0 THEN F_NAN ELSE F_INF) ELSE (a * W_ONE) \div b

\* half width of the interval the columns 9..11 are redrawn in: 1.5 (metres
\* for x and y, radians for theta)
Spread(r) == IF r = 11 THEN 1 ELSE 3

RedrawnCols == 9 .. 11

PFresample(set, pf, msg, s) ==
  LET sortedIndex == order_index(set[18])
      \* re-arrange the particles by the sorted indices
      sorted == [j \in Cols |-> [i \in Particles |-> set[j][sortedIndex[i]]]]
      weightSum == accumulate(sorted[18])
      norm == [i \in Particles |-> divides(weightSum, sorted[18][i])]
      \* the columns 9..11 are redrawn around their first entry
      redrawn ==
        [j \in Cols |->
           IF j \in RedrawnCols
           THEN [p \in Particles |->
                   Uniform(sorted[j][0] - Spread(j), sorted[j][0] + Spread(j),
                           Draw(s, (j - 9) * N_PARTICLES + p + 1))]
           ELSE sorted[j]]
      \* rows below KeptTop are published before the redraw, the others after
      out(k, par) == IF par < KeptTop THEN sorted[k][par] ELSE redrawn[k][par]
  IN  [set  |-> redrawn,
       pf   |-> [k \in Cols |-> [par \in Particles |-> out(k, par)]],
       msg  |-> [particles |-> [par \in Particles |->
                                  [k \in Cols |-> out(k, par)]],
                 weightSum |-> (weightSum \div W_ONE) % 65536],
       norm |-> norm,
       seed |-> RngAt(s, 3 * N_PARTICLES)]

(***************************************************************************)
(* SelfRobot::selfLandmarkDataCallback                                     *)
(***************************************************************************)
\* squared distance of an observation (half metres squared)
Dist2(msg, i) == msg.x[i] * msg.x[i] + msg.y[i] * msg.y[i]

\* lm_4_thresh, lm_5_thresh, lm_8_thresh, lm_9_thresh of a robot, squared
lm_thresh2(RobotNumber) ==
  CASE RobotNumber = 4 -> 36
    [] RobotNumber = 3 -> 169
    [] RobotNumber = 1 -> 169
    [] OTHER           -> 49

\* the flags without heuristic 1 (only 8 seen, then 7 is not seen)
landmarkfound_NoHeuristic1(msg, RobotNumber) ==
  LET d2(i) == Dist2(msg, i)
      f(i)  == msg.found[i]
      cleared(i) ==
        CASE i = 7 -> \/ f(8) /\ f(9) /\ d2(8) < d2(9)
                      \/ d2(7) > 49
          [] i = 6 -> \/ ~f(8) /\ f(9)
                      \/ f(8) /\ f(9) /\ d2(9) < d2(8)
                      \/ d2(6) > 49
          [] i \in {4, 5, 8, 9} -> d2(i) > lm_thresh2(RobotNumber)
          [] OTHER -> d2(i) > 25
  IN  [i \in Landmarks |-> f(i) /\ ~cleared(i)]

\* the flags landmarkfound[10] after the heuristics 1..13
landmarkfound(msg, RobotNumber) ==
  LET d2(i) == Dist2(msg, i)
      f(i)  == msg.found[i]
      cleared(i) ==
        CASE i = 7 -> \/ f(8) /\ ~f(9)
                      \/ f(8) /\ f(9) /\ d2(8) < d2(9)
                      \/ d2(7) > 49
          [] i = 6 -> \/ ~f(8) /\ f(9)
                      \/ f(8) /\ f(9) /\ d2(9) < d2(8)
                      \/ d2(6) > 49
          [] i \in {4, 5, 8, 9} -> d2(i) > lm_thresh2(RobotNumber)
          [] OTHER -> d2(i) > 25
  IN  [i \in Landmarks |-> f(i) /\ ~cleared(i)]

\* the value exp(ExpArg) of landmark i for particle p of robot index rn
Likelihood(set, rn, msg, i, p) ==
  LET px == set[0 + rn * 3][p]
      py == set[1 + rn * 3][p]
      th == set[2 + rn * 3][p]
      Zcap0 == (landmarks[i].x - px) * Cos(th) + (landmarks[i].y - py) * Sin(th)
      Zcap1 == (landmarks[i].y - py) * Cos(th) - (landmarks[i].x - px) * Sin(th)
      e0 == msg.x[i] - Zcap0
      e1 == msg.y[i] - Zcap1
  IN  Exp2((e0 * e0) \div msg.covXX[i] + (e1 * e1) \div msg.covYY[i])

\* the weight loop with the sign of the increment inverted
FusedWeight_Subtract(set, rn, msg, lf, p) ==
  LET acc[i \in 0 .. N_LANDMARKS] ==
        IF i = 0 THEN W_ONE
        ELSE acc[i - 1] - (IF lf[i - 1]
                           THEN Likelihood(set, rn, msg, i - 1, p) ELSE 0)
  IN  acc[N_LANDMARKS]

\* the weight of particle p after the loop over the landmarks
FusedWeight(set, rn, msg, lf, p) ==
  LET acc[i \in 0 .. N_LANDMARKS] ==
        IF i = 0 THEN W_ONE
        ELSE acc[i - 1] + (IF lf[i - 1]
                           THEN Likelihood(set, rn, msg, i - 1, p) ELSE 0)
  IN  acc[N_LANDMARKS]

SelfLandmarkDataCallback(msg) ==
  LET lf   == landmarkfound(msg, MY_ID)
      setF == [particleSet_ EXCEPT ![O_WEIGHT] =
                 Tab([p \in Particles |->
                        FusedWeight(particleSet_, MY_ID - 1, msg, lf, p)],
                     N_PARTICLES)]
      pfF  == [pfParticles_ EXCEPT ![O_WEIGHT] = [p \in Particles |-> W_ONE]]
      res  == PFresample(setF, pfF, msg_particles, seed_)
  IN  /\ Called("selfLandmark", MY_ID, FALSE)
      /\ preResample' = setF
      /\ particleSet_' = res.set
      /\ pfParticles_' = res.pf
      /\ msg_particles' = res.msg
      /\ normalizedWeights' = res.norm
      /\ seed_' = res.seed
      /\ published' = published + 1
      /\ iterations' = iterations + 1
      /\ steps' = <<"fuseRobots", "resample", "nextIteration">>
      /\ UNCHANGED <<config, started_, particlesInitialized, prePredict,
                     postInit>>

(***************************************************************************)
(* Messages                                                                *)
(***************************************************************************)
ObsX == <<1, 2, 3, 4, 1, 2, 3, 4, 1, 2>>
ObsY == <<0, 1, 2, 0, 1, 2, 0, 1, 2, 0>>

LandmarkMsg(F, shift, cov) ==
  [found |-> [i \in Landmarks |-> i \in F],
   x     |-> [i \in Landmarks |-> ObsX[i + 1] + shift],
   y     |-> [i \in Landmarks |-> ObsY[i + 1]],
   covXX |-> [i \in Landmarks |-> cov],
   covYY |-> [i \in Landmarks |-> cov + 1]]

FoundSets == { {}, {0, 4}, {6, 7, 8}, {6, 7, 8, 9} }

LandmarkMsgs ==
  { LandmarkMsg(F, shift, 32) : F \in FoundSets, shift \in {0, 4} }

(***************************************************************************)
(* The node: ros::spin delivers one callback at a time                     *)
(***************************************************************************)
Next ==
  \/ \E seq \in SeqSet, odom \in OdomSet : SelfOdometryCallback(seq, odom)
  \/ \E r \in Robots, seq \in SeqSet, odom \in OdomSet :
        TeammateOdometryCallback(r, seq, odom)
  \/ \E found \in BOOLEAN : SelfTargetDataCallback(found)
  \/ \E r \in Robots, found \in BOOLEAN : TeammateTargetDataCallback(r, found)
  \/ \E msg \in LandmarkMsgs : SelfLandmarkDataCallback(msg)
  \/ \E r \in Robots, msg \in LandmarkMsgs : TeammateLandmarkDataCallback(r, msg)

Spec == Init /\ [][Next]_vars

(***************************************************************************)
(* PFresample on its own: the node's callbacks, and PFresample applied to  *)
(* whatever particle set the node holds                                    *)
(***************************************************************************)
PFresampleCall ==
  LET res == PFresample(particleSet_, pfParticles_, msg_particles, seed_)
  IN  /\ Called("PFresample", MY_ID, FALSE)
      /\ preResample' = particleSet_
      /\ particleSet_' = res.set
      /\ pfParticles_' = res.pf
      /\ msg_particles' = res.msg
      /\ normalizedWeights' = res.norm
      /\ seed_' = res.seed
      /\ steps' = <<"resample">>
      /\ UNCHANGED <<config, started_, particlesInitialized, published,
                     iterations, prePredict, postInit>>

NextResample == Next \/ PFresampleCall

SpecResample == Init /\ [][NextResample]_vars

(***************************************************************************)
(* ParticleFilter: the operations that particles.h defines inline          *)
(***************************************************************************)
\* the variables of the node that a call on the ParticleFilter leaves alone
node == <<MY_ID, PLAYING_ROBOTS, started_, particlesInitialized, particleSet_,
          pfParticles_, msg_particles, normalizedWeights, seed_, published,
          iterations, steps, prePredict, preResample, postInit>>

\* ParticleFilter::robotsUsed_, by robot number
robotsUsed_ == [r \in RobotNumbers |-> (r + 1) \in PLAYING_ROBOTS]

\* the save with the landmark index dropped
saveLandmarkObservation_FirstSlot(buf, robotNumber, landmarkNumber, obs) ==
  [buf EXCEPT ![robotNumber][0] = obs]

\* saveLandmarkObservation(robotNumber, landmarkNumber, obs)
saveLandmarkObservation(buf, robotNumber, landmarkNumber, obs) ==
  [buf EXCEPT ![robotNumber][landmarkNumber] = obs]

\* saveLandmarkObservation(robotNumber, landmarkNumber, found)
saveLandmarkObservationFound(buf, robotNumber, landmarkNumber, found) ==
  [buf EXCEPT ![robotNumber][landmarkNumber].found = found]

\* saveTargetObservation(robotNumber, obs)
saveTargetObservation(buf, robotNumber, obs) ==
  [buf EXCEPT ![robotNumber] = obs]

\* the flag-only save storing a fresh observation that carries the flag
saveTargetObservationFound_Resets(buf, robotNumber, found) ==
  [buf EXCEPT ![robotNumber] = [targetObs_s EXCEPT !.found = found]]

\* saveTargetObservation(robotNumber, found)
saveTargetObservationFound(buf, robotNumber, found) ==
  [buf EXCEPT ![robotNumber].found = found]

SaveLandmarkObservation(r, l, obs) ==
  /\ Counted("saveLandmarkObservation", r, FALSE)
  /\ bufLandmarkObservations_' =
       saveLandmarkObservation(bufLandmarkObservations_, r, l, obs)
  /\ lastSave' = [lastSave EXCEPT !.landmark[r][l] =
                    [kind |-> "obs", obs |-> obs, found |-> obs.found]]
  /\ UNCHANGED <<node, particles_, bufTargetObservations_, estimator, setup>>

SaveLandmarkObservationFound(r, l, found) ==
  /\ Counted("saveLandmarkObservation", r, FALSE)
  /\ bufLandmarkObservations_' =
       saveLandmarkObservationFound(bufLandmarkObservations_, r, l, found)
  /\ lastSave' = [lastSave EXCEPT !.landmark[r][l] =
                    [kind |-> "found", obs |-> @.obs, found |-> found]]
  /\ UNCHANGED <<node, particles_, bufTargetObservations_, estimator, setup>>

SaveTargetObservation(r, obs) ==
  /\ Counted("saveTargetObservation", r, FALSE)
  /\ bufTargetObservations_' =
       saveTargetObservation(bufTargetObservations_, r, obs)
  /\ lastSave' = [lastSave EXCEPT !.target[r] =
                    [kind |-> "obs", obs |-> obs, found |-> obs.found]]
  /\ UNCHANGED <<node, particles_, bufLandmarkObservations_, estimator, setup>>

SaveTargetObservationFound(r, found) ==
  /\ Counted("saveTargetObservation", r, FALSE)
  /\ bufTargetObservations_' =
       saveTargetObservationFound(bufTargetObservations_, r, found)
  /\ lastSave' = [lastSave EXCEPT !.target[r] =
                    [kind |-> "found", obs |-> @.obs, found |-> found]]
  /\ UNCHANGED <<node, particles_, bufLandmarkObservations_, estimator, setup>>

\* copyParticle(p_To, p_From, i_To, i_From, subFirst, subLast): the result
\* is p_To after the loop
copyParticle(p_To, p_From, i_To, i_From, subFirst, subLast) ==
  [k \in DOMAIN p_To |->
     IF subFirst <= k /\ k <= subLast
     THEN [p_To[k] EXCEPT ![i_To] = p_From[k][i_From]]
     ELSE p_To[k]]

\* copyParticle(p_To, p_From, i_To, i_From): the whole particle
copyParticleWhole(p_To, p_From, i_To, i_From) ==
  copyParticle(p_To, p_From, i_To, i_From, 0, Cardinality(DOMAIN p_To) - 1)

\* resetWeights with the arguments of assign exchanged: val entries
resetWeights_Swapped(m, val) ==
  [m EXCEPT ![O_WEIGHT] =
     [p \in 0 .. ((val \div W_ONE) - 1) |-> Cardinality(DOMAIN m[O_WEIGHT])]]

\* resetWeights(val)
resetWeights(m, val) ==
  [m EXCEPT ![O_WEIGHT] = [p \in DOMAIN m[O_WEIGHT] |-> val]]

CopyParticleCall(p_From, i_To, i_From, subFirst, subLast) ==
  /\ Counted("copyParticle", 0, FALSE)
  /\ particles_' = IF subFirst = 0 /\ subLast = N_COLS - 1
                   THEN copyParticleWhole(particles_, p_From, i_To, i_From)
                   ELSE copyParticle(particles_, p_From, i_To, i_From,
                                     subFirst, subLast)
  /\ UNCHANGED <<node, bufLandmarkObservations_, bufTargetObservations_,
                 lastSave, estimator, setup>>

ResetWeightsCall(val) ==
  /\ Counted("resetWeights", 0, FALSE)
  /\ particles_' = resetWeights(particles_, val)
  /\ UNCHANGED <<node, bufLandmarkObservations_, bufTargetObservations_,
                 lastSave, estimator, setup>>

\* observations handed to the save calls
LandmarkObs(v, f) ==
  [found |-> f, x |-> v, y |-> v + 1, d |-> v + 2, phi |-> 0, covDD |-> 1,
   covPP |-> 1, covXX |-> 2, covYY |-> 3]

TargetObs(v, f) ==
  [found |-> f, x |-> v, y |-> v + 1, z |-> 1, d |-> v + 2, phi |-> 0,
   covDD |-> 1, covPP |-> 1, covXX |-> 2, covYY |-> 3]

LandmarkObsSet == { LandmarkObs(1, TRUE), LandmarkObs(4, FALSE) }

TargetObsSet == { TargetObs(1, TRUE), TargetObs(4, FALSE) }

\* the robots the save calls name: the main robot and OMNI2, which plays in
\* no configuration
SaveRobots == { MY_ID - 1, 1 }

SaveLandmarks == { 0, N_LANDMARKS - 1 }

\* a particle set to copy from
SourceParticles == [k \in Cols |-> [p \in Particles |-> k + p + 1]]

\* <<i_To, i_From, subFirst, subLast>>: a whole particle, and the pose of
\* the first robot only
CopyArgs == { <<0, N_PARTICLES - 1, 0, N_COLS - 1>>,
              <<N_PARTICLES - 1, 0, 0, 2>> }

\* the landmark messages without the shifted observations
UnshiftedMsgs == { LandmarkMsg(F, 0, 32) : F \in FoundSets }

NextEngine ==
  \/ \E r \in SaveRobots, l \in SaveLandmarks, obs \in LandmarkObsSet :
        SaveLandmarkObservation(r, l, obs)
  \/ \E r \in SaveRobots, l \in SaveLandmarks, found \in BOOLEAN :
        SaveLandmarkObservationFound(r, l, found)
  \/ \E r \in SaveRobots, obs \in TargetObsSet : SaveTargetObservation(r, obs)
  \/ \E r \in SaveRobots, found \in BOOLEAN :
        SaveTargetObservationFound(r, found)

SpecEngine == Init /\ [][NextEngine]_vars

\* the operations that write a particle matrix: the callbacks of the node
\* that initialize, predict, fuse and resample, and the operations that
\* write the particle set of the ParticleFilter
NextColumns ==
  \/ \E seq \in SeqSet, odom \in OdomSet : SelfOdometryCallback(seq, odom)
  \/ \E r \in Robots, seq \in SeqSet, odom \in OdomSet :
        TeammateOdometryCallback(r, seq, odom)
  \/ \E msg \in UnshiftedMsgs : SelfLandmarkDataCallback(msg)
  \/ \E a \in CopyArgs :
        CopyParticleCall(SourceParticles, a[1], a[2], a[3], a[4])
  \/ \E val \in {0, W_ONE} : ResetWeightsCall(val)

SpecColumns == Init /\ [][NextColumns]_vars

(***************************************************************************)
(* The landmark callback on the messages that show the goal posts          *)
(***************************************************************************)
\* landmarks 6 and 7 found together with every choice of 8 and 9; in the
\* last message 8 and 9 are at the same distance
GoalPostMsgs ==
  { LandmarkMsg(F, shift, 32) :
      F \in { {6, 7}, {6, 7, 8}, {6, 7, 9}, {6, 7, 8, 9} }, shift \in {0, 4} }
  \cup { [LandmarkMsg({6, 7, 8, 9}, 0, 32) EXCEPT !.x[8] = 2, !.y[8] = 0] }

NextGoalPosts ==
  \/ \E odom \in OdomSet : SelfOdometryCallback(1, odom)
  \/ \E r \in Robots, seq \in SeqSet :
        TeammateOdometryCallback(r, seq, <<1, 0, 1>>)
  \/ \E msg \in GoalPostMsgs : SelfLandmarkDataCallback(msg)

SpecGoalPosts == Init /\ [][NextGoalPosts]_vars

(***************************************************************************)
(* State::targetVelocityEstimator_s                                        *)
(***************************************************************************)
\* calls on the estimator in one run: enough to fill the ring and go on
MaxInserts == maxDataSize + 2

\* one second, in ticks
SECOND == TARGET_ITERATION_TIME_MAX

\* the hard coded 4.0 (metres) that obs.x and obs.y are compared with
SANITY_BOX == 8

VelTypes == 0 .. (STATES_PER_TARGET - 1)

\* conversion of a time in seconds to uint
TruncSec(t) == (t \div SECOND) * SECOND

\* the loop of insert that chooses the robot: readyToInsert, chosenRobot
\* and maxConf after all robots were examined
chooseRobot(obsData, robotStates) ==
  LET size == Cardinality(DOMAIN robotStates)
      after[n \in 0 .. size] ==
        IF n = 0
        THEN [readyToInsert |-> FALSE, chosenRobot |-> 0, maxConf |-> 0]
        ELSE LET r == n - 1
             IN  IF /\ obsData[r].found
                    /\ robotStates[r].conf > after[n - 1].maxConf
                    /\ obsData[r].x < SANITY_BOX
                    /\ obsData[r].y < SANITY_BOX
                 THEN [readyToInsert |-> TRUE, chosenRobot |-> r,
                       maxConf |-> robotStates[r].conf]
                 ELSE after[n - 1]
  IN  after[size]

\* the observation in the global frame, by the belief of the robot's state
ballGlobal(rs, obs) ==
  [velType \in VelTypes |->
     CASE velType = 0 -> rs.pose[1] + obs.x * Cos(rs.pose[3])
                                    - obs.y * Sin(rs.pose[3])
       [] velType = 1 -> rs.pose[2] + obs.x * Sin(rs.pose[3])
                                    + obs.y * Cos(rs.pose[3])
       [] OTHER       -> obs.z]

\* the origin taken anew at every insert
timeOrigin_EveryInsert(tv, ti, now) == TruncSec(now)

\* the time origin insert works with: the clock at the insert into the
\* empty ring, the stored timeInit afterwards
timeOrigin(tv, ti, now) == IF tv = <<>> THEN TruncSec(now) ELSE ti

\* insert with the newest sample erased when the ring overflows
insert_EraseNewest(tv, pv, ti, timeData, obsData, robotStates, now) ==
  LET c   == chooseRobot(obsData, robotStates)
      bg  == ballGlobal(robotStates[c.chosenRobot], obsData[c.chosenRobot])
      ti2 == timeOrigin(tv, ti, now)
      tv2 == Append(tv, timeData - ti2)
      pv2 == [velType \in VelTypes |-> Append(pv[velType], bg[velType])]
      cut(q) == SubSeq(q, 1, Len(q) - 1)
  IN  IF ~c.readyToInsert
      THEN [timeVec |-> tv, posVec |-> pv, timeInit |-> ti, pushed |-> FALSE,
            robot |-> 0]
      ELSE IF Len(tv2) > maxDataSize
           THEN [timeVec |-> cut(tv2),
                 posVec |-> [velType \in VelTypes |-> cut(pv2[velType])],
                 timeInit |-> ti2, pushed |-> TRUE, robot |-> c.chosenRobot]
           ELSE [timeVec |-> tv2, posVec |-> pv2, timeInit |-> ti2,
                 pushed |-> TRUE, robot |-> c.chosenRobot]

\* targetVelocityEstimator_s::insert on the members tv, pv, ti; now is the
\* value of ros::Time::now()
insert(tv, pv, ti, timeData, obsData, robotStates, now) ==
  LET c   == chooseRobot(obsData, robotStates)
      bg  == ballGlobal(robotStates[c.chosenRobot], obsData[c.chosenRobot])
      ti2 == timeOrigin(tv, ti, now)
      tv2 == Append(tv, timeData - ti2)
      pv2 == [velType \in VelTypes |-> Append(pv[velType], bg[velType])]
  IN  IF ~c.readyToInsert
      THEN [timeVec |-> tv, posVec |-> pv, timeInit |-> ti, pushed |-> FALSE,
            robot |-> 0]
      ELSE IF Len(tv2) > maxDataSize
           THEN [timeVec |-> Tail(tv2),
                 posVec |-> [velType \in VelTypes |-> Tail(pv2[velType])],
                 timeInit |-> ti2, pushed |-> TRUE, robot |-> c.chosenRobot]
           ELSE [timeVec |-> tv2, posVec |-> pv2, timeInit |-> ti2,
                 pushed |-> TRUE, robot |-> c.chosenRobot]

\* ready as soon as one sample is held
isReadyToEstimate_NonEmpty(tv) == Len(tv) >= 1

\* targetVelocityEstimator_s::isReadyToEstimate
isReadyToEstimate(tv) == Len(tv) = maxDataSize

\* pfuclt_aux::linearRegressionSlope: the slope of x over t
linearRegressionSlope(t, x) ==
  LET n == Len(t)
      sum[k \in 0 .. n] ==
        IF k = 0 THEN [t |-> 0, x |-> 0, tx |-> 0, tt |-> 0]
        ELSE [t  |-> sum[k - 1].t + t[k],
              x  |-> sum[k - 1].x + x[k],
              tx |-> sum[k - 1].tx + t[k] * x[k],
              tt |-> sum[k - 1].tt + t[k] * t[k]]
      S   == sum[n]
      num == n * S.tx - S.t * S.x
      den == n * S.tt - S.t * S.t
  IN  IF den = 0 THEN F_NAN
      ELSE IF num >= 0 THEN (num * SECOND) \div den
           ELSE -(((-num) * SECOND) \div den)

\* targetVelocityEstimator_s::estimate
estimate(tv, pv, velType) == linearRegressionSlope(tv, pv[velType])

\* the stamp of the measurement a call carries, and the clock at the call
Stamp == (nCalls + 1) * 10

Now == Stamp + 47

InsertCall(obsData, robotStates) ==
  LET res == insert(timeVec, posVec, timeInit, Stamp, obsData, robotStates, Now)
  IN  /\ nCalls < MaxInserts
      /\ nCalls' = nCalls + 1
      /\ lastCall' = [cb |-> "insert", robot |-> res.robot, init |-> FALSE]
      /\ timeVec' = res.timeVec
      /\ posVec' = res.posVec
      /\ timeInit' = res.timeInit
      /\ inserted' = IF res.pushed
                     THEN Append(inserted,
                                 [stamp |-> Stamp, robot |-> res.robot,
                                  pos |-> ballGlobal(robotStates[res.robot],
                                                     obsData[res.robot])])
                     ELSE inserted
      /\ UNCHANGED <<node, particles_, bufLandmarkObservations_,
                     bufTargetObservations_, lastSave, vel, setup>>

\* the velocity part of ParticleFilter::estimate: the slope of every axis
\* once the estimator is ready
EstimateCall ==
  /\ nCalls < MaxInserts
  /\ nCalls' = nCalls + 1
  /\ lastCall' = [cb |-> "estimate", robot |-> 0, init |-> FALSE]
  /\ vel' = IF isReadyToEstimate(timeVec)
            THEN [velType \in VelTypes |-> estimate(timeVec, posVec, velType)]
            ELSE vel
  /\ UNCHANGED <<node, particles_, bufLandmarkObservations_,
                 bufTargetObservations_, lastSave, timeVec, posVec, timeInit,
                 inserted, setup>>

\* the beliefs of the robots' states handed to insert
RobotStates(confs) ==
  [r \in RobotNumbers |->
     [pose |-> <<r + 1, 2 * r, (r % 4) - 1>>, conf |-> confs[r + 1]]]

\* the target observations handed to insert: the robots of F have found
\* the target at x = X[r + 1]
TargetObsVec(F, X) ==
  [r \in RobotNumbers |->
     IF r \in F THEN TargetObs(X[r + 1], TRUE) ELSE targetObs_s]

\* <<obsData, robotStates>>: three robots found the target, one of them
\* outside the box; two robots of equal conf; no robot; one robot of conf 0
InsertInputs ==
  { <<TargetObsVec({0, 2, 3}, <<9, 0, 1, 2, 0>>), RobotStates(<<9, 0, 5, 3, 0>>)>>,
    <<TargetObsVec({0, 2}, <<1, 0, 2, 0, 0>>), RobotStates(<<5, 0, 5, 0, 0>>)>>,
    <<TargetObsVec({}, <<0, 0, 0, 0, 0>>), RobotStates(<<4, 4, 4, 4, 4>>)>>,
    <<TargetObsVec({2}, <<0, 0, 1, 0, 0>>), RobotStates(<<0, 0, 0, 0, 0>>)>> }

NextEstimator ==
  \/ \E in \in InsertInputs : InsertCall(in[1], in[2])
  \/ EstimateCall

SpecEstimator == Init /\ [][NextEstimator]_vars

(***************************************************************************)
(* Construction data, parameters and the target iteration time             *)
(***************************************************************************)
\* the values of tRos
TimeSet == {0, 10, 40, 100}

\* the numbers of robots and of targets the parameter server may hold; with
\* more than 5 robots the fusion indexes particleSet_ beyond its 19 elements
RobotCounts == 1 .. 5

TargetCounts == {1, 2}

\* the state columns of a robot and the weight columns
STATES_PER_ROBOT == 3

NUM_WEIGHT == 1

\* fabs
fabs(x) == IF x < 0 THEN -x ELSE x

\* TimeEval::updateTime: the interval since the last update
updateTime(te, tRos) == [time |-> tRos, diff |-> tRos - te.time]

\* ParticleFilter::updateTargetIterationTime
updateTargetIterationTime(te, tRos) ==
  LET u == updateTime(te, tRos)
  IN  IF fabs(u.diff) > TARGET_ITERATION_TIME_MAX
      THEN [u EXCEPT !.diff = TARGET_ITERATION_TIME_DEFAULT]
      ELSE u

UpdateTargetIterationTime(tRos) ==
  /\ Counted("updateTargetIterationTime", 0, FALSE)
  /\ targetIterationTime_' = updateTargetIterationTime(targetIterationTime_, tRos)
  /\ UNCHANGED <<node, particles_, bufLandmarkObservations_,
                 bufTargetObservations_, lastSave, estimator, data, layout,
                 mutex_>>

\* the alpha pushed for every robot when none is given, in thousandths
defaultAlpha(nRobots) ==
  [i \in 1 .. (4 * nRobots) |->
     CASE i % 4 = 1 -> 15 [] i % 4 = 2 -> 100 [] i % 4 = 3 -> 500 [] OTHER -> 1]

\* PFinitData::PFinitData: the object after the constructor has returned,
\* by either of its two ends
PFinitData(nRobots, alpha) ==
  [constructed |-> TRUE, nRobots |-> nRobots,
   alpha |-> IF alpha = <<>> THEN defaultAlpha(nRobots) ELSE alpha]

PFinitDataCall(nRobots, alpha) ==
  /\ Counted("PFinitData", 0, FALSE)
  /\ data' = PFinitData(nRobots, alpha)
  /\ UNCHANGED <<node, particles_, bufLandmarkObservations_,
                 bufTargetObservations_, lastSave, estimator,
                 targetIterationTime_, layout, mutex_>>

\* the alpha vectors given for nRobots robots: none, one of the right size,
\* one too short, one too long
AlphaSet(nRobots) ==
  { <<>>, [i \in 1 .. (4 * nRobots) |-> 7], <<7, 7, 7>>,
    [i \in 1 .. (4 * nRobots + 1) |-> 7] }

\* main: the dimension computed from the parameters
N_DIMENSIONS(R, T) == (R + T) * STATES_PER_ROBOT + NUM_WEIGHT

\* the column the landmark callback treats as the weight
weightFuse(R) == (R + 1) * 3

\* the rows PFresample copies unconditionally: for (par = 0; par < 100; ...)
RESAMPLE_KEPT_ROWS == 100

\* the values of /N_PARTICLES
ParticleCounts == {50, 100, 200}

\* the rows PFresample indexes in a set of P particles: 0..99 in its first
\* copy loop, 100..P-1 in its second
rowsResample(P) == IF P > RESAMPLE_KEPT_ROWS THEN P ELSE RESAMPLE_KEPT_ROWS

\* main reads the parameters; the columns of particleSet_, the weight
\* columns and the rows the operations use follow
MainReadParams(R, T, P) ==
  /\ Counted("main", 0, FALSE)
  /\ layout' = [read |-> TRUE, MAX_ROBOTS |-> R, NUM_TARGETS |-> T,
                N_DIMENSIONS |-> N_DIMENSIONS(R, T), columns |-> N_COLS,
                weightInit |-> N_STATE_COLS, weightFuse |-> weightFuse(R),
                weightResample |-> N_STATE_COLS, N_PARTICLES |-> P,
                rowsResample |-> rowsResample(P)]
  /\ UNCHANGED <<node, particles_, bufLandmarkObservations_,
                 bufTargetObservations_, lastSave, estimator,
                 targetIterationTime_, data, mutex_>>

NextSetup ==
  \/ \E tRos \in TimeSet : UpdateTargetIterationTime(tRos)
  \/ \E nRobots \in {1, 2} : \E alpha \in AlphaSet(nRobots) :
       PFinitDataCall(nRobots, alpha)
  \/ \E R \in RobotCounts : \E T \in TargetCounts :
       \E P \in ParticleCounts : MainReadParams(R, T, P)

SpecSetup == Init /\ [][NextSetup]_vars

(***************************************************************************)
(* Odometry increments and their inverses                                  *)
(***************************************************************************)
\* the increment that undoes odom = <<x, y, yaw>>: the inverse of the
\* isometry the callback builds from the message
Inverse(odom) ==
  <<-(odom[1] * Cos(odom[3]) + odom[2] * Sin(odom[3])),
    -(odom[2] * Cos(odom[3]) - odom[1] * Sin(odom[3])),
    -odom[3]>>

OdomPairs == OdomSet \cup { Inverse(odom) : odom \in OdomSet }

NextPredict ==
  \/ \E seq \in SeqSet, odom \in OdomPairs : SelfOdometryCallback(seq, odom)
  \/ \E r \in Robots, seq \in SeqSet, odom \in OdomPairs :
        TeammateOdometryCallback(r, seq, odom)

SpecPredict == Init /\ [][NextPredict]_vars

\* the seed the constructor sets when time(0) returns t
SeedAt(t) == t

(***************************************************************************)
(* Properties                                                              *)
(***************************************************************************)
\* the exact sum of a weight column
SumW(w) ==
  LET acc[k \in 0 .. N_PARTICLES] ==
        IF k = 0 THEN 0 ELSE acc[k - 1] + w[k - 1]
  IN  acc[N_PARTICLES]

\* the last callback ran PFresample on the initialized particle set
Resampled ==
  particlesInitialized /\ lastCall.cb \in {"selfLandmark", "PFresample"}

\* the resample of the last callback was one that must not be skipped
NotSkipped == Resampled /\ SumW(preResample[18]) >= MIN_WEIGHTSUM

\* number of particles the elitism copy keeps: floor(RESAMPLE_START_AT * P)
TopCount == (RESAMPLE_START_NUM * N_PARTICLES) \div RESAMPLE_START_DEN

\* row s of matrix a equals row i of matrix b in every state column
SameRow(a, s, b, i) == \A k \in StateCols : a[k][s] = b[k][i]

\* inverse-CDF sampling: the first index whose cumulative weight exceeds u
InvCDF(w, u) ==
  LET cum[k \in 0 .. N_PARTICLES] ==
        IF k = 0 THEN 0 ELSE cum[k - 1] + w[k - 1]
  IN  CHOOSE m \in Particles : cum[m] <= u /\ u < cum[m + 1]

\* C1: every main-robot target-done notification increments the iteration
\* counter by exactly 1, and no notification on the main robot's landmark
\* channel or from a non-main robot changes it.
C1_TargetDoneDrivesIteration ==
  [][ /\ lastCall'.cb = "selfTarget" => iterations' = iterations + 1
      /\ lastCall'.cb \in {"selfLandmark", "teammateTarget",
                           "teammateLandmark"} => iterations' = iterations
    ]_vars

\* C2: within an iteration the steps predictTarget, fuseRobots, fuseTarget,
\* resample, estimate, nextIteration run in this order, none skipped or
\* repeated.
C2_StepOrder ==
  iterations > 0 /\ steps # <<>> =>
    steps = <<"predictTarget", "fuseRobots", "fuseTarget", "resample",
              "estimate", "nextIteration">>

\* C3: after a resample that is not skipped every weight equals 1/P.
C3_UniformAfterResample ==
  NotSkipped => \A p \in Particles : particleSet_[18][p] * N_PARTICLES = W_ONE

\* C4: right after initialization every pose and target component lies in
\* the interval of its dimension and every weight equals 1/P, which is
\* strictly positive.
C4_InitInBoxAndUniform ==
  particlesInitialized =>
    /\ \A k \in StateCols, p \in Particles :
          /\ particleSetRandomInitValues[k][1] <= postInit[k][p]
          /\ postInit[k][p] <= particleSetRandomInitValues[k][2]
    /\ \A p \in Particles :
          postInit[18][p] * N_PARTICLES = W_ONE /\ postInit[18][p] > 0

\* C5: the three pose columns of a robot that is not used keep their
\* post-init values under every sequence of operations.
C5_DisabledRobotFrozen ==
  particlesInitialized =>
    \A r \in Robots \ PLAYING_ROBOTS, c \in 0 .. 2 :
       particleSet_[3 * (r - 1) + c] = postInit[3 * (r - 1) + c]

\* C6: after a resample that is not skipped, the floor(RESAMPLE_START_AT * P)
\* particles of largest weight (ties by lower index) are all present in the
\* resampled matrix with every state column unchanged.
C6_TopFractionKept ==
  NotSkipped =>
    \A t \in 0 .. (TopCount - 1) :
       \E s \in Particles :
          SameRow(particleSet_, s, preResample, order_index(preResample[18])[t])

\* C7: after a resample that is not skipped every row equals one single
\* pre-resample particle in every state column.
C7_RowsAreGathered ==
  NotSkipped =>
    \A s \in Particles : \E i \in Particles :
       SameRow(particleSet_, s, preResample, i)

\* C8: after a resample that is not skipped every slot outside the elitism
\* copy holds a particle picked by inverse-CDF sampling over the weights,
\* hence never one of weight 0.
C8_SampledSlots ==
  NotSkipped =>
    \A s \in TopCount .. (N_PARTICLES - 1) :
       \E u \in 0 .. (SumW(preResample[18]) - 1) :
          SameRow(particleSet_, s, preResample, InvCDF(preResample[18], u))

C10_PredictFrame ==
  lastCall.cb \in {"selfOdometry", "teammateOdometry"} =>
    \A k \in Cols \ { 3 * (lastCall.robot - 1) + c : c \in 0 .. 2 } :
       /\ particleSet_[k] = prePredict.self[k]
       /\ pfParticles_[k] = prePredict.shared[k]

\* a prediction on the initialized set that moved the robot's own columns
C10_Witness ==
  /\ lastCall.cb = "selfOdometry"
  /\ particlesInitialized
  /\ particleSet_[3 * (MY_ID - 1)] # prePredict.self[3 * (MY_ID - 1)]
  /\ particleSet_[3 * (MY_ID - 1) + 2] # prePredict.self[3 * (MY_ID - 1) + 2]

\* the pose columns of the robots
PoseCols == 0 .. (3 * MAX_ROBOTS - 1)

\* C11: while the filter is not initialized, an odometry callback of any
\* robot (main or teammate) leaves every pose column of the particle matrix
\* unchanged.
C11_NoPredictUninitialized ==
  lastCall.cb \in {"selfOdometry", "teammateOdometry"} /\ ~particlesInitialized
    => \A k \in PoseCols : /\ particleSet_[k] = prePredict.self[k]
                           /\ pfParticles_[k] = prePredict.shared[k]

\* the measurement callbacks of the node
MeasurementCallbacks ==
  {"selfLandmark", "teammateLandmark", "selfTarget", "teammateTarget"}

\* C12: while the filter is not initialized, a landmark or target measurement
\* callback performs no weight fusion, no resample and no publication: the
\* particle matrix and the weights are unchanged by it.
C12_NoFusionUninitialized ==
  [][ ~particlesInitialized /\ lastCall'.cb \in MeasurementCallbacks =>
        /\ particleSet_' = particleSet_
        /\ pfParticles_' = pfParticles_
        /\ published' = published
    ]_vars

\* C13: over any run the particle set is initialized at most once, only at a
\* moment when every used robot has delivered at least one odometry message,
\* and once the filter is initialized it never becomes uninitialized or
\* re-initialized.
C13_InitOnceWhenAllActive ==
  [][ /\ lastCall'.init =>
           /\ ~particlesInitialized
           /\ particlesInitialized'
           /\ \A r \in PLAYING_ROBOTS : started_'[r]
      /\ particlesInitialized =>
           /\ particlesInitialized'
           /\ ~lastCall'.init
           /\ postInit' = postInit
      /\ particlesInitialized' # particlesInitialized => lastCall'.init
    ]_vars

\* an odometry message of the main robot that arrives after the
\* initialization and does not initialize again
C13_Witness ==
  /\ particlesInitialized
  /\ lastCall.cb = "selfOdometry"
  /\ ~lastCall.init
  /\ postInit # ZeroMatrix

\* the odometry {0, 0, 0}
ZeroOdometry == <<0, 0, 0>>

\* C14: a prediction with the zero odometry {0, 0, 0} leaves the robot's x, y
\* and theta columns unchanged for every particle, whatever the prior theta,
\* negative angles included.
C14_ZeroOdometryIdentity ==
  [][ /\ (particlesInitialized' /\
          \E seq \in SeqSet : SelfOdometryCallback(seq, ZeroOdometry)) =>
            \A c \in 0 .. 2 :
               particleSet_'[3 * (MY_ID - 1) + c] =
                 prePredict'.self[3 * (MY_ID - 1) + c]
      /\ \A r \in PLAYING_ROBOTS \ {MY_ID} :
           (particlesInitialized /\
            \E seq \in SeqSet : TeammateOdometryCallback(r, seq, ZeroOdometry)) =>
              \A c \in 0 .. 2 :
                 pfParticles_'[3 * (r - 1) + c] = pfParticles_[3 * (r - 1) + c]
    ]_vars

\* every column of the matrix m has n entries
ColumnsOfLength(m, n) == \A k \in DOMAIN m : DOMAIN m[k] = 0 .. (n - 1)

\* C15: every subset column of the particle matrix (the pose columns of all
\* robots, the target columns and the weight column) has the same length P
\* after construction and after every init, predict, fuse, resample,
\* resetWeights and copyParticle.
C15_ColumnLengths ==
  /\ DOMAIN particleSet_ = Cols /\ ColumnsOfLength(particleSet_, N_PARTICLES)
  /\ DOMAIN pfParticles_ = Cols /\ ColumnsOfLength(pfParticles_, N_PARTICLES)
  /\ DOMAIN particles_ = Cols /\ ColumnsOfLength(particles_, N_PARTICLES)

\* the node's set is initialized and a particle was copied into, or the
\* weights were reset in, the set of the ParticleFilter
C15_Witness ==
  /\ particlesInitialized
  /\ lastCall.cb \in {"copyParticle", "resetWeights"}
  /\ particles_ # ZeroMatrix

\* no landmark of the message is marked found after the heuristics
NoneFound(msg) == \A i \in Landmarks : ~landmarkfound(msg, MY_ID)[i]

\* C16: a robot that has no landmark marked found in the current iteration
\* leaves every entry of the master weight column unchanged by the landmark
\* fusion (and its conf is reported as 1).
C16_NoLandmarkKeepsWeights ==
  [][ \A msg \in LandmarkMsgs :
        (particlesInitialized /\ NoneFound(msg) /\ SelfLandmarkDataCallback(msg))
          => preResample'[O_WEIGHT] = particleSet_[O_WEIGHT]
    ]_vars

\* the weight of particle p multiplied by the likelihood factor of every
\* landmark that is marked found
ProductWeight(set, rn, msg, lf, p) ==
  LET acc[i \in 0 .. N_LANDMARKS] ==
        IF i = 0 THEN set[O_WEIGHT][p]
        ELSE IF lf[i - 1]
             THEN (acc[i - 1] * Likelihood(set, rn, msg, i - 1, p)) \div W_ONE
             ELSE acc[i - 1]
  IN  acc[N_LANDMARKS]

\* C17: landmark fusion composes multiplicatively: after the fusion the
\* master weight of particle p equals its weight before the fusion times the
\* product, over every landmark found, of the likelihood factor for p;
\* contributions are multiplied, not added, and the prior weight is not
\* discarded.
C17_FusionMultiplies ==
  [][ \A msg \in LandmarkMsgs :
        (particlesInitialized /\ SelfLandmarkDataCallback(msg)) =>
          \A p \in Particles :
             preResample'[O_WEIGHT][p] =
               ProductWeight(particleSet_, MY_ID - 1, msg,
                             landmarkfound(msg, MY_ID), p)
    ]_vars

SlotAfter(e) ==
  IF e.kind = "obs" THEN e.obs ELSE [e.obs EXCEPT !.found = e.found]

\* C19: each landmark slot [robot][landmark] and each target slot [robot]
\* holds exactly the value of the most recent save call for that slot
\* (write-last-wins); earlier writes are not retained or queued, and a save
\* to one slot never changes any other slot.
C19_WriteLastWins ==
  \A r \in RobotNumbers :
     /\ \A l \in Landmarks :
           bufLandmarkObservations_[r][l] = SlotAfter(lastSave.landmark[r][l])
     /\ bufTargetObservations_[r] = SlotAfter(lastSave.target[r])

\* a landmark slot was saved to twice (an observation, then a flag that
\* differs from the observation's) and another slot was saved to as well
C19_Witness ==
  \E r \in RobotNumbers, l \in Landmarks :
     /\ lastSave.landmark[r][l].kind = "found"
     /\ lastSave.landmark[r][l].obs # landmarkObs_s
     /\ lastSave.landmark[r][l].obs.found # lastSave.landmark[r][l].found
     /\ \/ \E l2 \in Landmarks \ {l} : lastSave.landmark[r][l2].kind = "obs"
        \/ \E r2 \in RobotNumbers : lastSave.target[r2].kind = "obs"

\* C20: an observation save that names a robot not in the used set is a
\* no-op: the observation buffers and all other engine state are unchanged
\* by it.
C20_UnusedRobotSaveIgnored ==
  [][ ( /\ lastCall'.cb \in {"saveLandmarkObservation", "saveTargetObservation"}
        /\ ~robotsUsed_[lastCall'.robot] ) =>
          /\ bufLandmarkObservations_' = bufLandmarkObservations_
          /\ bufTargetObservations_' = bufTargetObservations_
          /\ particles_' = particles_
    ]_vars

\* C21: after any sequence of insert calls the estimator holds at most
\* maxDataSize samples, and they are the most recently inserted ones in
\* insertion order: when an insert overflows the ring, the oldest sample is
\* the one removed.
C21_RingHoldsNewest ==
  LET n == Len(inserted)
      k == Len(timeVec)
  IN  /\ k <= maxDataSize
      /\ k = (IF n < maxDataSize THEN n ELSE maxDataSize)
      /\ \A velType \in VelTypes : Len(posVec[velType]) = k
      /\ \A i \in 1 .. k :
           /\ timeVec[i] = inserted[n - k + i].stamp - timeInit
           /\ \A velType \in VelTypes :
                posVec[velType][i] = inserted[n - k + i].pos[velType]

C21_Witness ==
  /\ Len(inserted) > maxDataSize
  /\ Len(timeVec) = maxDataSize
  /\ lastCall.cb = "insert"

ZeroVelocity == [velType \in VelTypes |-> 0]

Qualifying(obsData) ==
  { r \in DOMAIN obsData :
      obsData[r].found /\ obsData[r].x < SANITY_BOX /\ obsData[r].y < SANITY_BOX }

\* C23: an insert adds a sample iff at least one robot qualifies; the sample
\* added comes from a qualifying robot of maximal conf; when no robot
\* qualifies the ring is unchanged.
C23_InsertIffQualifying ==
  [][\A in \in InsertInputs :
       InsertCall(in[1], in[2]) =>
         LET Q == Qualifying(in[1])
         IN  /\ (Q # {}) <=> (Len(inserted') = Len(inserted) + 1)
             /\ Q # {} =>
                  /\ lastCall'.robot \in Q
                  /\ \A r \in Q : in[2][r].conf <= in[2][lastCall'.robot].conf
             /\ Q = {} => UNCHANGED <<timeVec, posVec>>]_vars

\* C24: after updateTargetIterationTime the stored interval is the measured
\* one when it lies in (0, 1] s, and TARGET_ITERATION_TIME_DEFAULT for every
\* other measured interval.
C24_IntervalClamped ==
  [][\A tRos \in TimeSet :
       UpdateTargetIterationTime(tRos) =>
         LET measured == tRos - targetIterationTime_.time
         IN  targetIterationTime_'.diff =
               IF 0 < measured /\ measured <= TARGET_ITERATION_TIME_MAX
               THEN measured
               ELSE TARGET_ITERATION_TIME_DEFAULT]_vars

\* C25: an alpha that is given and whose length is not 4 * nRobots yields no
\* initialization data; an omitted alpha becomes the default of length
\* 4 * nRobots, and a vector of that length is accepted.
C25_WrongAlphaRejected ==
  [][\A nRobots \in {1, 2} : \A alpha \in AlphaSet(nRobots) :
       PFinitDataCall(nRobots, alpha) =>
         IF alpha # <<>> /\ Len(alpha) # 4 * nRobots
         THEN UNCHANGED data
         ELSE /\ data'.constructed
              /\ Len(data'.alpha) = 4 * nRobots
              /\ alpha = <<>> => data'.alpha = defaultAlpha(nRobots)]_vars

\* C26: every step that writes the engine's particles or observation
\* buffers is taken while the filter's mutex_ is held.
C26_WritesHoldLock ==
  [][<<particles_, bufLandmarkObservations_, bufTargetObservations_>>'
       # <<particles_, bufLandmarkObservations_, bufTargetObservations_>>
     => mutex_]_vars

\* C28: for every configured number of robots R and of targets T, the set
\* has 3R + 3T + 1 columns, that is the size reported, and every operation
\* takes column 3R + 3T as the weight.
C28_WeightIsLastColumn ==
  layout.read =>
    LET W == 3 * layout.MAX_ROBOTS + 3 * layout.NUM_TARGETS
    IN  /\ layout.N_DIMENSIONS = W + 1
        /\ layout.columns = W + 1
        /\ layout.weightInit = W
        /\ layout.weightFuse = W
        /\ layout.weightResample = W

\* C27: the random source is seeded at construction with a value that does
\* not depend on the wall clock: before any callback the seed is the same
\* whatever time(0) returned, so that two runs given the same callbacks reach
\* the same particle matrix.
C27_SeedIndependentOfClock ==
  nCalls = 0 => \A t \in Seeds : seed_ = SeedAt(t)

\* C29: on the initialized filter every target callback of the main robot
\* completes a full iteration, whichever other robots have stopped calling,
\* and the buffer slots of the other robots keep their last writes.
C29_IterationSurvivesStop ==
  [][particlesInitialized /\ lastCall'.cb = "selfTarget" =>
       /\ iterations' = iterations + 1
       /\ steps' = <<"predictTarget", "fuseRobots", "fuseTarget", "resample",
                     "estimate", "nextIteration">>
       /\ \A r \in RobotNumbers \ {MY_ID - 1} :
            /\ bufLandmarkObservations_'[r] = bufLandmarkObservations_[r]
            /\ bufTargetObservations_'[r] = bufTargetObservations_[r]]_vars

\* two angles that differ by whole turns
SameAngle(a, b) == (a - b) % (2 * PI) = 0

\* C30: a prediction of the main robot with an increment followed by one
\* with the inverse increment returns the x, y and theta of every particle
\* of that robot to the values before the two predictions (theta up to
\* whole turns).
C30_InverseRestoresPose ==
  [][\A odom \in OdomSet :
       (/\ particlesInitialized
        /\ lastCall.cb = "selfOdometry"
        /\ particleSet_ = Predict(prePredict.self, MY_ID - 1, odom)
        /\ SelfOdometryCallback(1, Inverse(odom)))
       => \A i \in Particles :
            /\ \A c \in 0 .. 1 :
                 particleSet_'[3 * (MY_ID - 1) + c][i] =
                   prePredict.self[3 * (MY_ID - 1) + c][i]
            /\ SameAngle(particleSet_'[3 * (MY_ID - 1) + 2][i],
                         prePredict.self[3 * (MY_ID - 1) + 2][i])]_vars

\* C31: the normalized weight vector the resample computes has entry i equal
\* to w_i / S, with w the weight column in its sorted order and S its sum;
\* its entries are at most 1 and their sum does not exceed 1.
C31_NormalizedIsWeightOverSum ==
  Resampled /\ SumW(preResample[18]) > 0 =>
    /\ \A i \in Particles :
         normalizedWeights[i] =
           (particleSet_[18][i] * W_ONE) \div SumW(preResample[18])
    /\ SumW(normalizedWeights) <= W_ONE

\* C32: the weight sum computed at resample is the exact sum of the weight
\* column: accumulating truncates no entry and no partial sum.
C32_WeightSumExact ==
  Resampled => accumulate(particleSet_[18]) = SumW(preResample[18])

\* C33: the time origin of the velocity ring is set at the first insert
\* into the empty ring and never changes afterwards, also when old samples
\* are dropped; every stored time is the sample's stamp minus that origin.
C33_TimeOriginFixed ==
  /\ [][inserted = <<>> /\ inserted' # <<>> => timeInit' = TruncSec(Now)]_vars
  /\ [][inserted # <<>> => timeInit' = timeInit]_vars
  /\ [](\A i \in 1 .. Len(timeVec) :
          timeVec[i] =
            inserted[Len(inserted) - Len(timeVec) + i].stamp - timeInit)

C33_Witness ==
  /\ Len(inserted) = maxDataSize + 1
  /\ timeInit = TruncSec(inserted[1].stamp + 47)
  /\ timeVec[1] = inserted[2].stamp - timeInit
  /\ inserted[Len(inserted)].stamp - inserted[1].stamp > SECOND

\* the pose columns of robot r
PoseOf(r) == { 3 * (r - 1) + c : c \in 0 .. 2 }

\* C34: the poses a teammate's prediction wrote are still in the matrix the
\* next resample publishes, up to the resample gather: every published row
\* holds, in the teammate's pose columns, the pose of one row of the shared
\* matrix as the teammate's predictions (which moved it from the zeros it was
\* constructed with) left it.
C34_ResampleKeepsTeammatePrediction ==
  [][particlesInitialized /\ lastCall'.cb = "selfLandmark" =>
       \A r \in PLAYING_ROBOTS \ {MY_ID} :
         (\E k \in PoseOf(r), p \in Particles : pfParticles_[k][p] # 0) =>
           \A p \in Particles : \E i \in Particles :
             \A k \in PoseOf(r) : pfParticles_'[k][p] = pfParticles_[k][i]]_vars

\* C35: for every configuration main accepts, the columns and rows that
\* initialization, landmark fusion and resample index lie inside the
\* allocated matrix: column < N_DIMENSIONS and particle < N_PARTICLES.
C35_IndicesInsideMatrix ==
  layout.read =>
    /\ layout.columns <= layout.N_DIMENSIONS
    /\ layout.weightInit < layout.N_DIMENSIONS
    /\ layout.weightFuse < layout.N_DIMENSIONS
    /\ layout.weightResample < layout.N_DIMENSIONS
    /\ layout.rowsResample <= layout.N_PARTICLES

\* C36: the gate is evaluated only in the main robot's odometry callback: a
\* teammate's odometry callback marks that teammate as started and leaves
\* the particle set and the initialized flag alone, a started flag never
\* returns to false, and a main-robot odometry initializes the filter
\* exactly when it is not initialized yet and every other used robot has
\* started.
C36_GateInSelfOdometry ==
  [][ /\ \A r \in Robots : started_[r] => started_'[r]
      /\ lastCall'.cb = "teammateOdometry" =>
           /\ started_' = [started_ EXCEPT ![lastCall'.robot] = TRUE]
           /\ particlesInitialized' = particlesInitialized
           /\ particleSet_' = particleSet_
      /\ lastCall'.cb # "selfOdometry" =>
           particlesInitialized' = particlesInitialized
      /\ lastCall'.cb = "selfOdometry" =>
           /\ started_'[MY_ID]
           /\ (~particlesInitialized /\ particlesInitialized') <=>
                /\ ~particlesInitialized
                /\ \A r \in PLAYING_ROBOTS \ {MY_ID} : started_[r]
    ]_vars

\* the teammate started first, a main-robot odometry then initialized the
\* filter, and a later teammate odometry left it as it was
C36_Witness ==
  /\ particlesInitialized
  /\ lastCall.cb = "teammateOdometry"
  /\ particleSet_ = postInit
  /\ postInit # ZeroMatrix

\* C37: the teammates' landmark and target callbacks and the main robot's
\* target callback leave both particle matrices, the weights and what was
\* published unchanged; of the measurement callbacks only the main robot's
\* landmark callback changes weights, and it resamples and publishes
\* exactly once per call, whether or not a landmark was found.
C37_OnlySelfLandmarkActs ==
  [][ /\ lastCall'.cb \in {"teammateLandmark", "teammateTarget", "selfTarget"}
           => UNCHANGED <<particleSet_, pfParticles_, msg_particles,
                          normalizedWeights, published, preResample, seed_>>
      /\ lastCall'.cb = "selfLandmark" =>
           /\ published' = published + 1
           /\ \A p \in Particles : preResample'[O_WEIGHT][p] >= W_ONE
           /\ particleSet_' =
                PFresample(preResample', pfParticles_, msg_particles, seed_).set
           /\ msg_particles'.particles =
                [p \in Particles |-> [k \in Cols |-> pfParticles_'[k][p]]]
      /\ published' # published => lastCall'.cb = "selfLandmark"
    ]_vars

\* a second landmark message of the main robot in which nothing was found:
\* every weight was set to 1.0, and the pass was resampled and published
C37_Witness ==
  /\ lastCall.cb = "selfLandmark"
  /\ published = 2
  /\ \A p \in Particles : preResample[O_WEIGHT][p] = W_ONE

\* C38: in the main robot's landmark callback the heuristics only clear
\* flags, and when landmark 8 or 9 is reported found (unless both are, at
\* equal distance) at most one of 6 and 7 is accepted: 7 is rejected when
\* only 8 is seen or 8 is nearer, 6 when only 9 is seen or 9 is nearer.
C38_GoalPostHeuristics ==
  [][\A msg \in GoalPostMsgs :
       SelfLandmarkDataCallback(msg) =>
         LET lf == landmarkfound(msg, MY_ID)
             f(i) == msg.found[i]
             d2(i) == Dist2(msg, i)
         IN  /\ \A i \in Landmarks : lf[i] => f(i)
             /\ (f(8) \/ f(9)) /\ ~(f(8) /\ f(9) /\ d2(8) = d2(9))
                  => ~(lf[6] /\ lf[7])
             /\ f(8) /\ (~f(9) \/ d2(8) < d2(9)) => ~lf[7]
             /\ f(9) /\ (~f(8) \/ d2(9) < d2(8)) => ~lf[6]
             /\ preResample'[O_WEIGHT] =
                  [p \in Particles |->
                     FusedWeight(particleSet_, MY_ID - 1, msg, lf, p)]]_vars

\* a landmark message on the initialized filter whose accepted landmarks
\* raised a weight above the 1.0 the callback starts from
C38_Witness ==
  /\ particlesInitialized
  /\ lastCall.cb = "selfLandmark"
  /\ \E p \in Particles : preResample[O_WEIGHT][p] > W_ONE
  /\ \E p \in Particles : preResample[O_WEIGHT][p] = W_ONE

\* the fields of an observation other than its found flag
DataFields(obs) == DOMAIN obs \ {"found"}

\* C39: the found-only overloads of the savers change only the found flag
\* of the slot they address: the other fields of the slot keep the values
\* of the last full-observation write, and every other slot is unchanged.
C39_FoundOnlyKeepsData ==
  [][ /\ \A r \in SaveRobots, l \in SaveLandmarks, found \in BOOLEAN :
           SaveLandmarkObservationFound(r, l, found) =>
             /\ bufLandmarkObservations_'[r][l].found = found
             /\ \A fld \in DataFields(landmarkObs_s) :
                  /\ bufLandmarkObservations_'[r][l][fld] =
                       bufLandmarkObservations_[r][l][fld]
                  /\ bufLandmarkObservations_'[r][l][fld] =
                       lastSave.landmark[r][l].obs[fld]
             /\ \A r2 \in RobotNumbers, l2 \in Landmarks :
                  <<r2, l2>> # <<r, l>> =>
                    bufLandmarkObservations_'[r2][l2] =
                      bufLandmarkObservations_[r2][l2]
             /\ bufTargetObservations_' = bufTargetObservations_
      /\ \A r \in SaveRobots, found \in BOOLEAN :
           SaveTargetObservationFound(r, found) =>
             /\ bufTargetObservations_'[r].found = found
             /\ \A fld \in DataFields(targetObs_s) :
                  /\ bufTargetObservations_'[r][fld] =
                       bufTargetObservations_[r][fld]
                  /\ bufTargetObservations_'[r][fld] =
                       lastSave.target[r].obs[fld]
             /\ \A r2 \in RobotNumbers \ {r} :
                  bufTargetObservations_'[r2] = bufTargetObservations_[r2]
             /\ bufLandmarkObservations_' = bufLandmarkObservations_
    ]_vars

\* a target slot that was given a full observation and then a flag that
\* differs from the observation's
C39_Witness ==
  /\ lastCall.cb = "saveTargetObservation"
  /\ \E r \in RobotNumbers :
       /\ lastSave.target[r].kind = "found"
       /\ lastSave.target[r].obs # targetObs_s
       /\ lastSave.target[r].obs.found # lastSave.target[r].found
       /\ bufTargetObservations_[r].x = lastSave.target[r].obs.x

====
